---------------------------- MODULE Spec2Model ----------------------------
(***************************************************************************)
(* Model of the protocol generator (src/standup_to_word.py and             *)
(* src/Protokollapp/protokoll.py): the git publish workflow, the document  *)
(* codec, the date gate of the GUI handlers, the settings loader and the   *)
(* file name sanitizer.                                                    *)
(*                                                                         *)
(* Text is modelled as a sequence of tokens.  A token is either a single   *)
(* character (" ", "-", "~", ...) or a word that stands for the literal    *)
(* substring it spells ("Team:", "main", ...); no token of an alphabet     *)
(* used below is a substring of a concatenation of the others.             *)
(***************************************************************************)
EXTENDS Integers, Sequences, FiniteSets, TLC

VARIABLES
    \* ---- the publish workflow (upload_docx_flow) ----
    repo_url,      \* gh.repo_url of the settings
    repoDir,       \* the clone directory: "absent", "empty", "junk", "clone"
    localBr,       \* the local branches of the clone
    localTip,      \* local branch -> its committed tree
    remoteBr,      \* the branches of origin
    remoteTip,     \* branch of origin -> its committed tree
    ups,           \* local branches whose upstream is origin/<same name>
    head,          \* the checked-out branch
    index,         \* staged tree
    work,          \* working tree
    nCommits,      \* commits created by git commit
    pc,            \* position of the running upload_docx_flow ("idle": none)
    doc,           \* the generated file handed to the flow: [name, bytes]
    branchIn,      \* what the user typed into the branch dialog
    branch,        \* the branch prompt_branch returned
    cmds,          \* the git commands this run has invoked, in order
    outcome,       \* how the last finished run ended: "none", "returned", "raised"
    err,           \* the error the last finished run raised
    dialogs,       \* message boxes shown by the run
    entry,         \* what existed when checkout_branch was entered
    prev,          \* the run before, if it returned: [doc, branch, outcome]
    runs,          \* runs started
    \* ---- the document codec ----
    rec,           \* the form's fields handed to create_word_doc_to_path
    docx,          \* the document: its paragraphs' texts, top to bottom
    encoded,       \* docx was written by create_word_doc_to_path from rec
    result,        \* load_existing_docx: the dict it builds
    current_section, \* load_existing_docx: the section cursor
    pos,           \* load_existing_docx: the paragraph the loop is at
    cpc,           \* "form", "file", "loading", "loaded"
    \* ---- the file name sanitizer ----
    name_in,       \* the team name handed to safe_filename
    name_out,      \* what it returned
    name_by,       \* which one ran: "none", "safe_filename", "_safe_filename"
    \* ---- the settings store ----
    settings_file, \* settings.json: [state, data]
    settings,      \* the AppSettings in memory
    spc,           \* "start", "loaded", "crashed", "saved"
    \* ---- the GUI handlers ----
    datum_var,     \* the date field of the form
    disk,          \* the protocol files that exist in the output directory
    last_created_path, \* main's last_created_path
    started,       \* check_existing_on_start has run
    handler,       \* the handler that ran last
    dateSeen,      \* the date field when that handler was entered
    ops,           \* the filesystem operations it performed, in order
    boxes,         \* the dialogs it showed, in order
    gen,           \* on_generate: whether outpath existed when it looked, the
                   \* user_choice, and whether outpath exists when it is done
    \* ---- run_git and the errors it raises ----
    rg_args,       \* the arguments of the git call
    rg_proc,       \* the finished subprocess: [returncode, stdout, stderr]
    rg_exc,        \* the message of the RuntimeError in flight (<<>>: none)
    rg_ret,        \* what run_git returned
    rg_shown,      \* the text of on_upload_github's error box (<<>>: none)
    rg_pc          \* "idle", "raised", "fallback", "returned", "shown"

gitVars == <<repo_url, repoDir, localBr, localTip, remoteBr, remoteTip, ups, head, index, work,
             nCommits, pc, doc, branchIn, branch, cmds, outcome, err, dialogs,
             entry, prev, runs>>

codecVars == <<rec, docx, encoded, result, current_section, pos, cpc>>

nameVars == <<name_in, name_out, name_by>>

setVars == <<settings_file, settings, spc>>

appVars == <<datum_var, disk, last_created_path, started, handler, dateSeen,
             ops, boxes, gen>>

rgVars == <<rg_args, rg_proc, rg_exc, rg_ret, rg_shown, rg_pc>>

vars == <<gitVars, codecVars, nameVars, setVars, appVars, rgVars>>

-----------------------------------------------------------------------------
(* Bounds *)

MaxRuns == 3       \* publish runs
MaxTokens == 2     \* tokens of a generated field value or entry
MaxParas == 3      \* paragraphs of a document that was not generated
MaxName == 3       \* characters of an enumerated team name

-----------------------------------------------------------------------------
(* Text helpers: Python's str.strip, re.search(r"\s"), str.split *)

Whitespace == {" ", "\t", "\n"}

RECURSIVE LStrip(_)
LStrip(s) == IF s # <<>> /\ Head(s) \in Whitespace THEN LStrip(Tail(s)) ELSE s

RECURSIVE RStrip(_)
RStrip(s) ==
    IF s # <<>> /\ s[Len(s)] \in Whitespace
    THEN RStrip(SubSeq(s, 1, Len(s) - 1)) ELSE s

Strip(s) == RStrip(LStrip(s))

Range(s) == {s[i] : i \in 1..Len(s)}

\* s.split(sep)[-1]
RECURSIVE LastSegment(_, _)
LastSegment(s, sep) ==
    IF \E i \in 1..Len(s) : s[i] = sep
    THEN LastSegment(Tail(s), sep)
    ELSE s


\* str.lstrip(chars)
RECURSIVE LStripChars(_, _)
LStripChars(s, chars) ==
    IF s # <<>> /\ Head(s) \in chars THEN LStripChars(Tail(s), chars) ELSE s

\* s.startswith(tok), for a token that stands for a literal
StartsWith(s, tok) == s # <<>> /\ Head(s) = tok

\* s.replace(tok, ""): every occurrence goes
Remove(s, tok) == LET Keep(c) == c # tok IN SelectSeq(s, Keep)

\* str.splitlines()
RECURSIVE SplitLinesRaw(_, _)
SplitLinesRaw(s, cur) ==
    IF s = <<>> THEN (IF cur = <<>> THEN <<>> ELSE <<cur>>)
    ELSE IF Head(s) = "\n" THEN <<cur>> \o SplitLinesRaw(Tail(s), <<>>)
    ELSE SplitLinesRaw(Tail(s), Append(cur, Head(s)))

\* "\n".join(lines)
RECURSIVE JoinLines(_)
JoinLines(ls) ==
    IF ls = <<>> THEN <<>>
    ELSE IF Len(ls) = 1 THEN ls[1]
    ELSE ls[1] \o <<"\n">> \o JoinLines(Tail(ls))

\* all sequences over S of length 1..n
RECURSIVE SeqsUpTo(_, _)
SeqsUpTo(S, n) ==
    IF n = 0 THEN {}
    ELSE {<<c>> : c \in S}
            \cup {Append(t, c) : t \in SeqsUpTo(S, n - 1), c \in S}

-----------------------------------------------------------------------------
(* The publish workflow: data *)

Files == {"protokoll_A.docx", "protokoll_B.docx"}
EmptyTree == [f \in Files |-> 0]        \* 0: the file is not in the tree
\* the generated files a run may be handed: a name and the bytes
Docs ==
    { [name |-> "protokoll_A.docx", bytes |-> 1],
      [name |-> "protokoll_A.docx", bytes |-> 2],
      [name |-> "protokoll_B.docx", bytes |-> 1] }
NoDoc == [name |-> "none", bytes |-> 0]

\* GitHubSettings.default_branch
default_branch == <<"main">>

\* what the user may answer in the branch dialog (simpledialog.askstring):
\* Cancel, or a text
BranchTexts ==
    { <<>>, <<" ">>, <<"main">>, <<" ", "dev", " ">>, <<"new">>,
      <<"new", " ", "x">>, <<"dev", "~">>, <<"^", "main">>, <<"a", ":", "b">>,
      <<"?">>, <<"*">>, <<"[", "x", "]">>, <<"x", "\\">>, <<"dev", "\t", "x">> }

BranchAnswers ==
    {[cancel |-> TRUE, text |-> <<>>]}
        \cup {[cancel |-> FALSE, text |-> t] : t \in BranchTexts}

BadBranchChars_NoTilde == Whitespace \cup {"^", ":", "?", "*", "[", "]", "\\"}

\* re.search(r"[\s~^:?*\[\]\\]", branch)
BadBranchChars == Whitespace \cup {"~", "^", ":", "?", "*", "[", "]", "\\"}

HasBadBranchChar(b) == \E i \in 1..Len(b) : b[i] \in BadBranchChars

\* prompt_branch: the dialog's answer -> the branch, or None (ok = FALSE)
prompt_branch(answer, default) ==
    IF answer.cancel
    THEN [ok |-> FALSE, branch |-> <<>>, dialog |-> <<>>]
    ELSE LET b == IF Strip(answer.text) # <<>> THEN Strip(answer.text) ELSE default
         IN  IF HasBadBranchChar(b)
             THEN [ok |-> FALSE, branch |-> <<>>,
                   dialog |-> <<"Ogiltigt branch-namn">>]
             ELSE [ok |-> TRUE, branch |-> b, dialog |-> <<>>]

\* the branch names of the model: those of origin and those a run can ask for
Branches == {<<"main">>, <<"dev">>, <<"new">>}

\* refs/remotes/origin/HEAD of the clone
originHead == <<"refs", "/", "remotes", "/", "origin", "/", "main">>

\* git status --porcelain: staged changes, unstaged changes and untracked files
StatusPorcelain ==
    {f \in Files : index[f] # localTip[head][f] \/ work[f] # index[f]}

\* git checkout of a tree: local changes are carried over unless the target
\* tree differs in a changed or untracked file, in which case git refuses
Unchanged(f) == index[f] = localTip[head][f] /\ work[f] = localTip[head][f]

CheckoutConflicts(tgt) ==
    {f \in Files : ~Unchanged(f) /\ tgt[f] # localTip[head][f]}

CheckoutIndex(tgt) == [f \in Files |-> IF Unchanged(f) THEN tgt[f] ELSE index[f]]

CheckoutWork(tgt) == [f \in Files |-> IF Unchanged(f) THEN tgt[f] ELSE work[f]]

-----------------------------------------------------------------------------
(* The publish workflow: how a run ends *)

NoError == [kind |-> "none", cmd |-> "none"]
GitError(c) == [kind |-> "git", cmd |-> c]
FlowError(k) == [kind |-> k, cmd |-> "none"]

\* an exception leaves upload_docx_flow; on_upload_github shows it
Raise(e) ==
    /\ pc' = "idle"
    /\ outcome' = "raised"
    /\ err' = e

\* upload_docx_flow returns; on_upload_github shows "committad och pushad"
Return ==
    /\ pc' = "idle"
    /\ outcome' = "returned"
    /\ err' = NoError

Invoke(c) == cmds' = Append(cmds, c)

-----------------------------------------------------------------------------
(* The publish workflow: one action per step of upload_docx_flow *)

repoVars == <<repoDir, localBr, localTip, remoteBr, remoteTip, ups, head,
              index, work, nCommits>>
runVars == <<repo_url, doc, branchIn, branch, entry, prev, runs, dialogs>>

\* on_upload_github calls upload_docx_flow with the generated file
StartUpload ==
    /\ pc = "idle"
    /\ runs < MaxRuns
    /\ \E d \in Docs : doc' = d
    /\ prev' = IF outcome = "returned"
               THEN [doc |-> doc, branch |-> branch, outcome |-> outcome]
               ELSE [doc |-> NoDoc, branch |-> <<>>, outcome |-> "none"]
    /\ runs' = runs + 1
    /\ pc' = "ensure"
    /\ outcome' = "running"
    /\ err' = NoError
    /\ cmds' = <<>>
    /\ dialogs' = <<>>
    /\ branchIn' = [cancel |-> FALSE, text |-> <<>>]
    /\ branch' = <<>>
    /\ entry' = [loc |-> FALSE, rem |-> FALSE, clone |-> repoDir = "clone",
                 dir |-> repoDir]
    /\ UNCHANGED <<repo_url, repoVars>>

\* git clone: the default branch of origin is checked out and tracks it
CloneOk ==
    /\ repoDir' = "clone"
    /\ localBr' = {LastSegment(originHead, "/")}
    /\ localTip' = [b \in Branches |->
                      IF b = LastSegment(originHead, "/")
                      THEN remoteTip[b] ELSE EmptyTree]
    /\ head' = LastSegment(originHead, "/")
    /\ ups' = {LastSegment(originHead, "/")}
    /\ index' = remoteTip[LastSegment(originHead, "/")]
    /\ work' = remoteTip[LastSegment(originHead, "/")]
    /\ UNCHANGED <<remoteBr, remoteTip, nCommits>>

ensure_repo_cloned_AnyDirectory ==
    /\ pc = "ensure"
    /\ IF Strip(repo_url) = <<>>
       THEN /\ Raise(FlowError("repo_url saknas"))
            /\ UNCHANGED <<cmds, repoVars>>
       ELSE IF repoDir = "clone"
       THEN /\ pc' = "prompt"
            /\ UNCHANGED <<cmds, repoVars, outcome, err>>
       ELSE /\ Invoke("clone")
            /\ \/ CloneOk /\ pc' = "prompt" /\ UNCHANGED <<outcome, err>>
               \/ Raise(GitError("clone")) /\ UNCHANGED repoVars
    /\ UNCHANGED runVars

\* repoDir: "clone" has the .git marker, "junk" is non-empty without it
ensure_repo_cloned ==
    /\ pc = "ensure"
    /\ IF Strip(repo_url) = <<>>
       THEN /\ Raise(FlowError("repo_url saknas"))
            /\ UNCHANGED <<cmds, repoVars>>
       ELSE IF repoDir = "clone"
       THEN /\ pc' = "prompt"
            /\ UNCHANGED <<cmds, repoVars, outcome, err>>
       ELSE IF repoDir = "junk"
       THEN /\ Raise(FlowError("inte ett git-repo"))
            /\ UNCHANGED <<cmds, repoVars>>
       ELSE /\ Invoke("clone")
            /\ \/ CloneOk /\ pc' = "prompt" /\ UNCHANGED <<outcome, err>>
               \/ Raise(GitError("clone")) /\ UNCHANGED repoVars
    /\ UNCHANGED runVars

\* branch = prompt_branch(...); if branch is None: raise
PromptBranch ==
    /\ pc = "prompt"
    /\ \E a \in BranchAnswers :
         LET r == prompt_branch(a, default_branch) IN
         /\ branchIn' = a
         /\ dialogs' = dialogs \o r.dialog
         /\ IF r.ok
            THEN /\ branch' = r.branch
                 /\ entry' = [entry EXCEPT !.loc = r.branch \in localBr,
                                           !.rem = r.branch \in remoteBr]
                 /\ pc' = "fetch"
                 /\ UNCHANGED <<outcome, err>>
            ELSE /\ Raise(FlowError("Avbrutet: ingen branch vald."))
                 /\ UNCHANGED <<branch, entry>>
    /\ UNCHANGED <<repo_url, doc, prev, runs, cmds, repoVars>>

\* a git command that changes nothing the model keeps: it succeeds and the
\* flow goes on at `next`, or it fails and run_git raises
GitStep(at, c, next) ==
    /\ pc = at
    /\ Invoke(c)
    /\ \/ pc' = next /\ UNCHANGED <<outcome, err>>
       \/ Raise(GitError(c))
    /\ UNCHANGED <<repoVars, runVars>>

\* run_git(["fetch", "--all", "--prune"]): the remote-tracking branches are
\* those of origin
Fetch == GitStep("fetch", "fetch", "list_local")

ListLocal_RemoteFirst ==
    /\ pc = "list_local"
    /\ Invoke("branch --list")
    /\ \/ /\ pc' = IF branch \in remoteBr THEN "checkout_t"
                   ELSE IF branch \in localBr THEN "checkout" ELSE "symbolic-ref"
          /\ UNCHANGED <<outcome, err>>
       \/ Raise(GitError("branch --list"))
    /\ UNCHANGED <<repoVars, runVars>>

\* local = run_git(["branch", "--list", branch]); if local.strip(): ...
ListLocal ==
    /\ pc = "list_local"
    /\ Invoke("branch --list")
    /\ \/ /\ pc' = IF branch \in localBr THEN "checkout" ELSE "list_remote"
          /\ UNCHANGED <<outcome, err>>
       \/ Raise(GitError("branch --list"))
    /\ UNCHANGED <<repoVars, runVars>>

\* a checkout of `tgt` as branch b succeeded
CheckedOut(b, tgt) ==
    /\ CheckoutConflicts(tgt) = {}
    /\ head' = b
    /\ index' = CheckoutIndex(tgt)
    /\ work' = CheckoutWork(tgt)
    /\ localBr' = localBr \cup {b}
    /\ localTip' = [localTip EXCEPT ![b] = tgt]
    /\ pc' = "copy"
    /\ UNCHANGED <<repoDir, remoteBr, remoteTip, nCommits, outcome, err>>

\* run_git(["checkout", branch])
CheckoutLocal ==
    /\ pc = "checkout"
    /\ Invoke("checkout")
    /\ \/ CheckedOut(branch, localTip[branch]) /\ UNCHANGED ups
       \/ Raise(GitError("checkout")) /\ UNCHANGED repoVars
    /\ UNCHANGED runVars

\* remote = run_git(["branch", "-r", "--list", f"origin/{branch}"])
ListRemote ==
    /\ pc = "list_remote"
    /\ Invoke("branch -r --list")
    /\ \/ /\ pc' = IF branch \in remoteBr THEN "checkout_t" ELSE "symbolic-ref"
          /\ UNCHANGED <<outcome, err>>
       \/ Raise(GitError("branch -r --list"))
    /\ UNCHANGED <<repoVars, runVars>>

\* run_git(["checkout", "-t", f"origin/{branch}"])
CheckoutTrack ==
    /\ pc = "checkout_t"
    /\ Invoke("checkout -t")
    /\ \/ /\ branch \notin localBr
          /\ CheckedOut(branch, remoteTip[branch])
          /\ ups' = ups \cup {branch}
       \/ Raise(GitError("checkout -t")) /\ UNCHANGED repoVars
    /\ UNCHANGED runVars

\* origin_head = run_git(["symbolic-ref", "refs/remotes/origin/HEAD"])
SymbolicRef == GitStep("symbolic-ref", "symbolic-ref", "checkout_b")

\* default_remote_branch = origin_head.split("/")[-1] if origin_head else "main"
default_remote_branch ==
    IF originHead # <<>> THEN LastSegment(originHead, "/") ELSE <<"main">>

\* run_git(["checkout", "-b", branch, f"origin/{default_remote_branch}"]):
\* the new branch's upstream is origin/<default>, not origin/<branch>
CheckoutNew ==
    /\ pc = "checkout_b"
    /\ Invoke("checkout -b")
    /\ \/ /\ branch \notin localBr
          /\ default_remote_branch \in remoteBr
          /\ CheckedOut(branch, remoteTip[default_remote_branch])
          /\ ups' = ups \ {branch}
       \/ Raise(GitError("checkout -b")) /\ UNCHANGED repoVars
    /\ UNCHANGED runVars

\* target_path.write_bytes(docx_path.read_bytes())
copy_docx_into_repo ==
    /\ pc = "copy"
    /\ work' = [work EXCEPT ![doc.name] = doc.bytes]
    /\ pc' = "add"
    /\ UNCHANGED <<repoDir, localBr, localTip, remoteBr, remoteTip, ups, head,
                   index, nCommits, cmds, outcome, err, runVars>>

\* run_git(["add", str(rel)])
GitAdd ==
    /\ pc = "add"
    /\ Invoke("add")
    /\ \/ /\ index' = [index EXCEPT ![doc.name] = work[doc.name]]
          /\ pc' = "status"
          /\ UNCHANGED <<outcome, err>>
       \/ Raise(GitError("add")) /\ UNCHANGED index
    /\ UNCHANGED <<repoDir, localBr, localTip, remoteBr, remoteTip, ups, head,
                   work, nCommits, runVars>>

\* status = run_git(["status", "--porcelain"]); if not status.strip(): return
GitStatus ==
    /\ pc = "status"
    /\ Invoke("status")
    /\ \/ IF StatusPorcelain = {}
          THEN Return
          ELSE pc' = "commit" /\ UNCHANGED <<outcome, err>>
       \/ Raise(GitError("status"))
    /\ UNCHANGED <<repoVars, runVars>>

\* run_git(["commit", "-m", commit_msg]): git refuses when nothing is staged
GitCommit ==
    /\ pc = "commit"
    /\ Invoke("commit")
    /\ \/ /\ index # localTip[head]
          /\ localTip' = [localTip EXCEPT ![head] = index]
          /\ nCommits' = nCommits + 1
          /\ pc' = "push"
          /\ UNCHANGED <<outcome, err>>
       \/ Raise(GitError("commit")) /\ UNCHANGED <<localTip, nCommits>>
    /\ UNCHANGED <<repoDir, localBr, remoteBr, remoteTip, ups, head, index,
                   work, runVars>>

\* origin's branch b now is the local one
Pushed(b) ==
    /\ remoteBr' = remoteBr \cup {b}
    /\ remoteTip' = [remoteTip EXCEPT ![b] = localTip[b]]

GitPush_NoFallback ==
    /\ pc = "push"
    /\ Invoke("push")
    /\ \/ head \in ups /\ Pushed(head) /\ Return
       \/ Raise(GitError("push")) /\ UNCHANGED <<remoteBr, remoteTip>>
    /\ UNCHANGED <<repoDir, localBr, localTip, ups, head, index, work,
                   nCommits, runVars>>

\* try: run_git(["push"]) except RuntimeError: ...
\* a plain push needs the upstream origin/<same name>
GitPush ==
    /\ pc = "push"
    /\ Invoke("push")
    /\ \/ head \in ups /\ Pushed(head) /\ Return
       \/ pc' = "rev-parse" /\ UNCHANGED <<remoteBr, remoteTip, outcome, err>>
    /\ UNCHANGED <<repoDir, localBr, localTip, ups, head, index, work,
                   nCommits, runVars>>

\* current_branch = run_git(["rev-parse", "--abbrev-ref", "HEAD"])
RevParse == GitStep("rev-parse", "rev-parse", "push -u")

\* run_git(["push", "-u", "origin", current_branch])
GitPushUpstream ==
    /\ pc = "push -u"
    /\ Invoke("push -u")
    /\ \/ Pushed(head) /\ ups' = ups \cup {head} /\ Return
       \/ Raise(GitError("push -u")) /\ UNCHANGED <<remoteBr, remoteTip, ups>>
    /\ UNCHANGED <<repoDir, localBr, localTip, head, index, work, nCommits,
                   runVars>>

InitGit ==
    /\ repo_url \in {<<>>, <<" ">>, <<"url">>}
    /\ repoDir \in {"absent", "empty", "junk", "clone"}
    /\ remoteBr = {<<"main">>, <<"dev">>}
    /\ remoteTip = [b \in Branches |-> EmptyTree]
    /\ localTip = [b \in Branches |-> EmptyTree]
    \* a clone that is there already is a fresh clone of origin
    /\ localBr = IF repoDir = "clone" THEN {LastSegment(originHead, "/")} ELSE {}
    /\ ups = localBr
    /\ head = IF repoDir = "clone" THEN LastSegment(originHead, "/") ELSE <<>>
    /\ index = EmptyTree
    /\ work = EmptyTree
    /\ nCommits = 0
    /\ pc = "idle"
    /\ doc = NoDoc
    /\ branchIn = [cancel |-> FALSE, text |-> <<>>]
    /\ branch = <<>>
    /\ cmds = <<>>
    /\ outcome = "none"
    /\ err = NoError
    /\ dialogs = <<>>
    /\ entry = [loc |-> FALSE, rem |-> FALSE, clone |-> FALSE, dir |-> "absent"]
    /\ prev = [doc |-> NoDoc, branch |-> <<>>, outcome |-> "none"]
    /\ runs = 0

-----------------------------------------------------------------------------
(* Claims about the publish workflow, checked under Spec *)

Invoked(c) == c \in Range(cmds)
CountOf(S) == Cardinality({i \in 1..Len(cmds) : cmds[i] \in S})
PosOf(c) == CHOOSE i \in 1..Len(cmds) : cmds[i] = c
Finished == pc = "idle" /\ outcome \in {"returned", "raised"}

\* C1: a run that returns normally leaves the file's commit on origin, on the
\* resolved branch (committed and pushed); every other run raises.
C1_ReturnedImpliesPushed ==
    (pc = "idle" /\ outcome = "returned")
        => (branch \in remoteBr /\ remoteTip[branch][doc.name] = doc.bytes)

\* C2: a run on the same branch with the same file as the run before, which
\* returned normally, invokes neither git commit nor git push.
C2_SecondRunIsClean ==
    (prev.outcome = "returned" /\ prev.doc = doc /\ prev.branch = branch)
        => (~Invoked("commit") /\ ~Invoked("push"))

\* C3: git commit is invoked only when the staged file differs from its
\* version in the last commit, whatever else the clone contains.
C3_CommitOnlyIfStagedFileDiffers ==
    pc = "commit" => index[doc.name] # localTip[head][doc.name]

CheckoutCmds == {"checkout", "checkout -t", "checkout -b"}
AfterCheckout ==
    {"copy", "add", "status", "commit", "push", "rev-parse", "push -u"}

\* C4: the alternatives are tried in the order local, remote-tracking,
\* new-from-default and one checkout command is issued; a branch that exists
\* locally (also when origin has it too) is checked out plainly, with no
\* fetch after the listing, no checkout -t and no checkout -b.
C4_ResolutionPrecedence ==
    /\ CountOf(CheckoutCmds) <= 1
    /\ CountOf({"fetch"}) <= 1
    /\ (pc \in AfterCheckout \/ (pc = "idle" /\ Invoked("add")))
           => CountOf(CheckoutCmds) = 1
    /\ Invoked("branch --list")
           => Invoked("fetch") /\ PosOf("fetch") < PosOf("branch --list")
    /\ Invoked("checkout")
           => entry.loc /\ cmds[PosOf("checkout") - 1] = "branch --list"
    /\ (entry.loc /\ Invoked("branch --list"))
           => /\ ~Invoked("branch -r --list")
              /\ ~Invoked("symbolic-ref")
              /\ ~Invoked("checkout -t")
              /\ ~Invoked("checkout -b")
    /\ Invoked("branch -r --list")
           => /\ ~entry.loc
              /\ PosOf("branch --list") < PosOf("branch -r --list")
    /\ Invoked("checkout -t")
           => /\ ~entry.loc /\ entry.rem
              /\ cmds[PosOf("checkout -t") - 1] = "branch -r --list"
    /\ Invoked("checkout -b")
           => /\ ~entry.loc /\ ~entry.rem
              /\ PosOf("branch -r --list") < PosOf("checkout -b")

C4_Witness ==
    /\ pc = "copy"
    /\ entry.loc /\ entry.rem
    /\ Invoked("checkout")

\* the characters the claim names
ClaimBadChars == {" ", "\t", "\n", "~", "^", ":", "?", "*", "[", "]", "\\"}
AskedBranch ==
    IF Strip(branchIn.text) # <<>> THEN Strip(branchIn.text) ELSE default_branch
AskedBadName ==
    /\ pc \notin {"ensure", "prompt"}
    /\ ~branchIn.cancel
    /\ Range(AskedBranch) \cap ClaimBadChars # {}

\* C5 as stated: when a bad branch name is rejected, no git clone, fetch or
\* push has been invoked in the run.
C5_RejectedBeforeAnyNetwork ==
    AskedBadName => (~Invoked("clone") /\ ~Invoked("fetch") /\ ~Invoked("push"))

\* C5 amended: a bad branch name is rejected (the run raises) before any
\* fetch, checkout or push; the only git command that can precede the
\* rejection is the git clone of ensure_repo_cloned, and only when there was
\* no local clone.
C5_RejectedBeforeFetchAndPush ==
    AskedBadName
        => /\ pc = "idle" /\ outcome = "raised"
           /\ dialogs = <<"Ogiltigt branch-namn">>
           /\ Range(cmds) \subseteq {"clone"}
           /\ entry.clone => cmds = <<>>

C5_Witness ==
    /\ AskedBadName
    /\ "~" \in Range(AskedBranch)
    /\ cmds = <<"clone">>

\* ensure_repo_cloned has run in the current or last run
PastEnsure == runs > 0 /\ pc # "ensure"
UrlGiven == Strip(repo_url) # <<>>
EnsureFailed == outcome = "raised" /\ err.kind \in {"repo_url saknas", "inte ett git-repo"}
EnsureFatal == EnsureFailed /\ cmds = <<>>
EnsureReturned == ~EnsureFailed /\ err # GitError("clone")

C13_CloneIff ==
    /\ Invoked("clone") <=> (UrlGiven /\ entry.dir \in {"absent", "empty"})
    /\ CountOf({"clone"}) <= 1
    /\ (~UrlGiven \/ entry.dir = "junk") => EnsureFatal

\* C13 as stated: clone is invoked iff the URL is non-empty and the directory
\* has no marker and is absent or empty; an empty URL or a non-empty
\* directory without the marker fails without cloning; a directory with the
\* marker is returned without cloning.
C13_CloneGating ==
    PastEnsure
        => /\ C13_CloneIff
           /\ entry.dir = "clone" => (EnsureReturned /\ ~Invoked("clone"))

\* C13 amended: the URL is checked first; a directory with the marker is
\* returned without cloning when the URL is non-empty, and an empty URL fails
\* also when the clone is there.
C13_CloneGatingUrlFirst ==
    PastEnsure
        => /\ C13_CloneIff
           /\ (entry.dir = "clone" /\ UrlGiven)
                => (EnsureReturned /\ ~Invoked("clone"))
           /\ (entry.dir = "clone" /\ ~UrlGiven)
                => (EnsureFatal /\ err = FlowError("repo_url saknas"))

C13_Witness ==
    /\ PastEnsure
    /\ entry.dir = "clone"
    /\ ~UrlGiven
    /\ EnsureFatal

LastCmd == IF cmds = <<>> THEN "none" ELSE cmds[Len(cmds)]
Before(c) == IF PosOf(c) > 1 THEN cmds[PosOf(c) - 1] ELSE "none"
NoFallbackCmds ==
    {"clone", "fetch", "branch --list", "branch -r --list", "checkout",
     "checkout -t", "checkout -b", "symbolic-ref", "add", "status", "commit"}

\* C11: a plain push follows the commit; exactly when it fails the branch name
\* is determined and the push is retried once as push -u, whose failure is
\* raised; a failure of any other git command is raised as it is and is the
\* last git command of the run.
C11_PushFallbackOnly ==
    /\ CountOf({"push"}) <= 1 /\ CountOf({"rev-parse"}) <= 1
    /\ CountOf({"push -u"}) <= 1
    /\ Invoked("push") => Before("push") = "commit"
    /\ Invoked("rev-parse") => Before("rev-parse") = "push"
    /\ Invoked("push -u") => Before("push -u") = "rev-parse"
    /\ LastCmd = "push"
         => \/ pc = "idle" /\ outcome = "returned" /\ remoteTip[head] = localTip[head]
            \/ pc = "rev-parse" /\ outcome = "running"
    /\ LastCmd = "commit" => (pc = "push" \/ err = GitError("commit"))
    /\ (outcome = "raised" /\ err.kind = "git")
         => (err.cmd = LastCmd /\ err.cmd # "push")
    /\ (LastCmd \in NoFallbackCmds /\ outcome = "running")
         => pc \notin {"idle", "rev-parse", "push -u"}
    /\ (LastCmd = "push -u" /\ outcome = "raised") => err = GitError("push -u")

C11_Witness ==
    /\ outcome = "raised"
    /\ err = GitError("push -u")
    /\ Len(cmds) >= 4
    /\ SubSeq(cmds, Len(cmds) - 3, Len(cmds)) = <<"commit", "push", "rev-parse", "push -u">>

\* C12: a failing symbolic-ref lookup does not abort the run: checkout -b
\* <branch> origin/main follows it.
C12_SymbolicRefFallsBackToMain ==
    /\ err # GitError("symbolic-ref")
    /\ (LastCmd = "symbolic-ref") => pc = "checkout_b"

-----------------------------------------------------------------------------
(* The document codec: create_word_doc_to_path and load_existing_docx *)

\* the combo box labels and what map_status_to_emoji writes for them
OnTrack == "Pa spar (green)"
SlightlyBehind == "Lite efter (yellow)"
NeedsHelp == "Behover hjalp (red)"
StatusLabels == {OnTrack, SlightlyBehind, NeedsHelp}

map_status_to_emoji(status_label) ==
    IF status_label = OnTrack THEN <<"(green)", " ", "Pa spar">>
    ELSE IF status_label = SlightlyBehind THEN <<"(yellow)", " ", "Lite efter">>
    ELSE IF status_label = NeedsHelp THEN <<"(red)", " ", "Behover hjalp">>
    ELSE <<"(green)", " ", "Pa spar">>

\* split_lines: the stripped non-empty lines of a text
split_lines(text) ==
    LET stripped == [i \in 1..Len(SplitLinesRaw(text, <<>>)) |->
                        Strip(SplitLinesRaw(text, <<>>)[i])]
        NonEmpty(l) == l # <<>>
    IN  SelectSeq(stripped, NonEmpty)

OrDash(s) == IF Strip(s) # <<>> THEN Strip(s) ELSE <<"-">>

\* add_section: the heading, one paragraph per item, an empty paragraph
add_section(title_text, items_text) ==
    <<<<title_text>>>> \o split_lines(items_text) \o <<<<>>>>

\* create_word_doc_to_path: the paragraphs of the document it saves
create_word_doc_to_path(r) ==
    << <<"Boiler Room-protokoll">>, <<>>,
       <<"Team:", " ">> \o OrDash(r.team),
       <<"Datum:", " ">> \o OrDash(r.datum),
       <<"Deltagare:", " ">> \o OrDash(r.deltagare),
       <<>> >>
    \o add_section("Vad vi jobbade med:", r.vad_vi_jobbat_med)
    \o add_section("Hinder vi stotte pa:", r.hinder)
    \o << <<"Status:", " ">> \o map_status_to_emoji(r.status), <<>> >>
    \o add_section("Nasta steg:", r.nasta_steg)

\* load_existing_docx: result before the loop
EmptyResult ==
    [team |-> <<>>, datum |-> <<>>, deltagare |-> <<>>,
     vad_vi_jobbat_med |-> <<>>, hinder |-> <<>>,
     status |-> OnTrack, nasta_steg |-> <<>>]

NoSection == "None"

\* the Status: branch of the loop
StatusOf(status_text, old) ==
    IF "(green)" \in Range(status_text) THEN OnTrack
    ELSE IF "(yellow)" \in Range(status_text) THEN SlightlyBehind
    ELSE IF "(red)" \in Range(status_text) THEN NeedsHelp
    ELSE old

\* text.lstrip of bullet, tab, space and hyphen
BulletChars == {"(bullet)", "\t", " ", "-"}

Appended_Assigned(old, text) == LStripChars(text, BulletChars)

\* result[current_section] += ("\n" if result[current_section]) + cleaned_text
Appended(old, text) ==
    (IF old # <<>> THEN old \o <<"\n">> ELSE old) \o LStripChars(text, BulletChars)

\* one iteration of the loop over doc.paragraphs: the new [result, section]
LoadPara(res, sec, para) ==
    LET text == Strip(para) IN
    IF text = <<>> THEN [result |-> res, section |-> sec]
    ELSE IF text = <<"Standup / Workshop-protokoll">>
    THEN [result |-> res, section |-> sec]
    ELSE IF StartsWith(text, "Team:")
    THEN [result |-> [res EXCEPT !.team = Strip(Remove(text, "Team:"))],
          section |-> NoSection]
    ELSE IF StartsWith(text, "Datum:")
    THEN [result |-> [res EXCEPT !.datum = Strip(Remove(text, "Datum:"))],
          section |-> NoSection]
    ELSE IF StartsWith(text, "Deltagare:")
    THEN [result |-> [res EXCEPT !.deltagare = Strip(Remove(text, "Deltagare:"))],
          section |-> NoSection]
    ELSE IF StartsWith(text, "Status:")
    THEN [result |-> [res EXCEPT !.status =
                         StatusOf(Strip(Remove(text, "Status:")), res.status)],
          section |-> NoSection]
    ELSE IF text = <<"Vad vi jobbade med:">>
    THEN [result |-> res, section |-> "vad_vi_jobbat_med"]
    ELSE IF text = <<"Hinder vi stotte pa:">>
    THEN [result |-> res, section |-> "hinder"]
    ELSE IF text = <<"Nasta steg:">>
    THEN [result |-> res, section |-> "nasta_steg"]
    ELSE IF sec = "vad_vi_jobbat_med"
    THEN [result |-> [res EXCEPT !.vad_vi_jobbat_med = Appended(@, text)],
          section |-> sec]
    ELSE IF sec = "hinder"
    THEN [result |-> [res EXCEPT !.hinder = Appended(@, text)], section |-> sec]
    ELSE IF sec = "nasta_steg"
    THEN [result |-> [res EXCEPT !.nasta_steg = Appended(@, text)],
          section |-> sec]
    ELSE [result |-> res, section |-> sec]

\* the tokens of generated field values and entries
CodecTokens ==
    {"a", " ", "-", "(bullet)", "Team:", "Status:", "Nasta steg:", "(red)"}

\* non-empty single-line values
Values == {v \in SeqsUpTo(CodecTokens, MaxTokens) : Strip(v) # <<>>}

\* a text widget's content: one entry per line
TextOf(entries) == JoinLines(entries) \o <<"\n">>

EntrySeqs ==
    {<<>>, << <<"a">>, <<"a", " ", "a">> >>}
        \cup {<<e>> : e \in Values}
        \cup {<< <<"a">>, e >> : e \in Values}
        \cup {<< e, <<"a">> >> : e \in Values}

BaseRec ==
    [team |-> <<"a">>, datum |-> <<"2026-01-20">>,
     deltagare |-> <<"a", ",", " ", "a">>,
     vad_vi_jobbat_med |-> TextOf(<< <<"a">> >>), hinder |-> TextOf(<<>>),
     status |-> NeedsHelp, nasta_steg |-> TextOf(<< <<"a">> >>)]

\* the records handed to the encoder: one field at a time takes every value
Records ==
    {[BaseRec EXCEPT !.team = v] : v \in Values}
        \cup {[BaseRec EXCEPT !.datum = v] : v \in Values}
        \cup {[BaseRec EXCEPT !.deltagare = v] : v \in Values}
        \cup {[BaseRec EXCEPT !.vad_vi_jobbat_med = TextOf(es)] : es \in EntrySeqs}
        \cup {[BaseRec EXCEPT !.hinder = TextOf(es)] : es \in EntrySeqs}
        \cup {[BaseRec EXCEPT !.nasta_steg = TextOf(es)] : es \in EntrySeqs}
        \cup {[BaseRec EXCEPT !.status = l] : l \in StatusLabels}

\* paragraphs of documents that were written or edited by hand
HandParas ==
    { <<>>, <<"a">>, <<" ", "-", " ", "a">>, <<"Team:", " ", "a">>,
      <<"Datum:", "a">>, <<"Status:", " ", "(red)", " ", "a">>,
      <<"Status:", " ", "a">>, <<"Status:", "(yellow)">>,
      <<"Vad vi jobbade med:">>, <<"Nasta steg:">>,
      <<"Standup / Workshop-protokoll">> }

HandDocs == {<<>>} \cup SeqsUpTo(HandParas, MaxParas)

InitCodec ==
    /\ \/ /\ cpc = "form"
          /\ rec \in Records
          /\ docx = <<>>
       \/ /\ cpc = "file"
          /\ rec = BaseRec
          /\ docx \in HandDocs
    /\ encoded = FALSE
    /\ result = EmptyResult
    /\ current_section = NoSection
    /\ pos = 0

\* on_generate: created = create_word_doc_to_path(...)
Generate ==
    /\ cpc = "form"
    /\ docx' = create_word_doc_to_path(rec)
    /\ encoded' = TRUE
    /\ cpc' = "file"
    /\ UNCHANGED <<rec, result, current_section, pos>>

\* load_existing_docx: doc = Document(docx_path); result = {...}
LoadStart ==
    /\ cpc = "file"
    /\ result' = EmptyResult
    /\ current_section' = NoSection
    /\ pos' = 1
    /\ cpc' = "loading"
    /\ UNCHANGED <<rec, docx, encoded>>

\* load_existing_docx: for para in doc.paragraphs
LoadStep ==
    /\ cpc = "loading"
    /\ pos <= Len(docx)
    /\ result' = LoadPara(result, current_section, docx[pos]).result
    /\ current_section' = LoadPara(result, current_section, docx[pos]).section
    /\ pos' = pos + 1
    /\ UNCHANGED <<rec, docx, encoded, cpc>>

\* load_existing_docx: return result
LoadReturn ==
    /\ cpc = "loading"
    /\ pos > Len(docx)
    /\ cpc' = "loaded"
    /\ UNCHANGED <<rec, docx, encoded, result, current_section, pos>>

-----------------------------------------------------------------------------
(* Claims about the codec, checked under SpecCodec *)

SingleLine(v) == Strip(v) # <<>> /\ "\n" \notin Range(v)

\* C6: loading a generated document gives back team, date, participants,
\* status and the three entry sequences (joined by newline), up to trimming.
C6_RoundTrip ==
    (cpc = "loaded" /\ encoded
        /\ SingleLine(rec.team) /\ SingleLine(rec.datum)
        /\ SingleLine(rec.deltagare) /\ rec.status \in StatusLabels)
    => /\ result.team = Strip(rec.team)
       /\ result.datum = Strip(rec.datum)
       /\ result.deltagare = Strip(rec.deltagare)
       /\ result.status = rec.status
       /\ result.vad_vi_jobbat_med = JoinLines(split_lines(rec.vad_vi_jobbat_med))
       /\ result.hinder = JoinLines(split_lines(rec.hinder))
       /\ result.nasta_steg = JoinLines(split_lines(rec.nasta_steg))

StatusLines == {i \in 1..Len(docx) : StartsWith(Strip(docx[i]), "Status:")}
LastStatusLine == CHOOSE i \in StatusLines : \A j \in StatusLines : j <= i
Glyphs == {"(green)", "(yellow)", "(red)"}

\* C9: when the (last) Status line of the document holds none of the three
\* glyphs, the decoded status is the on-track one.
C9_StatusDefault ==
    (cpc = "loaded" /\ StatusLines # {}
        /\ Range(docx[LastStatusLine]) \cap Glyphs = {})
    => result.status = OnTrack

-----------------------------------------------------------------------------
(* The file name sanitizer: safe_filename and _safe_filename *)

\* [A-Za-z0-9_\-] and the six Swedish letters, as far as the alphabet has them
AllowedChars ==
    {"a", "Z", "7", "_", "-", "Aring", "ouml",
     "T", "e", "m", "R", "d"}

\* the alphabet of enumerated names: allowed characters, whitespace, others
NameChars == {"a", "Z", "7", "_", "-", "ouml", " ", "\t", "!", "eacute"}

NameInputs ==
    {<<>>} \cup SeqsUpTo(NameChars, MaxName)
        \cup { <<"T", "e", "a", "m", " ", "R", "ouml", "d", "!", "!">>,
               <<" ", " ", " ">>,
               <<" ", "a", " ", "\t", " ", "Z", "!", " ">> }

SubWhitespace_EachChar(s) ==
    [i \in 1..Len(s) |-> IF s[i] \in Whitespace THEN "_" ELSE s[i]]

\* re.sub(r"\s+", "_", s): every maximal run of whitespace becomes one "_"
RECURSIVE SubWhitespace(_)
SubWhitespace(s) ==
    IF s = <<>> THEN <<>>
    ELSE IF Head(s) \in Whitespace
    THEN <<"_">> \o SubWhitespace(LStrip(s))
    ELSE <<Head(s)>> \o SubWhitespace(Tail(s))

\* re.sub(r"[^A-Za-z0-9_\-...]", "", s)
DropOthers(s) == LET Ok(c) == c \in AllowedChars IN SelectSeq(s, Ok)

\* safe_filename (and _safe_filename, which differs only in `s or ""`)
safe_filename(s) ==
    LET t == DropOthers(SubWhitespace(Strip(s)))
    IN  IF t # <<>> THEN t ELSE <<"T", "e", "a", "m">>

InitName ==
    /\ name_in \in NameInputs
    /\ name_out = <<>>
    /\ name_by = "none"

\* planned_docx_path: safe_filename(team)
CallSafeFilename ==
    /\ name_by = "none"
    /\ name_out' = safe_filename(name_in)
    /\ name_by' = "safe_filename"
    /\ UNCHANGED name_in

\* Protokollapp: create_word_doc: _safe_filename(team)
CallSafeFilenameProtokoll ==
    /\ name_by = "none"
    /\ name_out' = safe_filename(name_in)
    /\ name_by' = "_safe_filename"
    /\ UNCHANGED name_in

-----------------------------------------------------------------------------
(* Claims about the sanitizer, checked under SpecName *)

\* the reference of the claim: position by position, a whitespace character
\* that starts a run gives "_", another whitespace character gives nothing,
\* an allowed character gives itself, any other character gives nothing
KeptAt(s, i) ==
    IF s[i] \in Whitespace
    THEN (IF i = 1 \/ s[i - 1] \notin Whitespace THEN <<"_">> ELSE <<>>)
    ELSE (IF s[i] \in AllowedChars THEN <<s[i]>> ELSE <<>>)

RECURSIVE Collected(_, _)
Collected(s, n) == IF n = 0 THEN <<>> ELSE Collected(s, n - 1) \o KeptAt(s, n)

Reference(s) ==
    IF Collected(s, Len(s)) = <<>> THEN <<"T", "e", "a", "m">>
    ELSE Collected(s, Len(s))

\* the name without its leading and trailing whitespace
Trimmed(s) ==
    LET keep == {i \in 1..Len(s) : s[i] \notin Whitespace} IN
    IF keep = {} THEN <<>>
    ELSE LET lo == CHOOSE i \in keep : \A j \in keep : i <= j
             hi == CHOOSE i \in keep : \A j \in keep : j <= i
         IN  [k \in 1..(hi - lo + 1) |-> s[lo + k - 1]]

\* C10 as stated: for every name, also one with leading or trailing
\* whitespace, the result is the reference applied to the name itself.
C10_EqualsReferenceOnRawName ==
    name_by # "none" => name_out = Reference(name_in)

\* C10 amended: the result is the reference applied to the name with leading
\* and trailing whitespace removed; it is never empty, holds only allowed
\* characters, and the two examples of the spec come out as stated.
C10_EqualsReferenceOnTrimmedName ==
    name_by # "none"
        => /\ name_out = Reference(Trimmed(name_in))
           /\ name_out # <<>>
           /\ Range(name_out) \subseteq AllowedChars
           /\ name_in = <<"T", "e", "a", "m", " ", "R", "ouml", "d", "!", "!">>
                 => name_out = <<"T", "e", "a", "m", "_", "R", "ouml", "d">>
           /\ name_in = <<" ", " ", " ">> => name_out = <<"T", "e", "a", "m">>

C10_Witness ==
    /\ name_by = "safe_filename"
    /\ name_in = <<" ", "a", " ", "\t", " ", "Z", "!", " ">>
    /\ name_out = <<"a", "_", "Z">>

-----------------------------------------------------------------------------
(* The settings store: load_settings and save_settings *)

\* a JSON value as far as load_settings tells values apart: t is its type
\* ("missing": the key is absent) and v what str(value) gives
Missing == [t |-> "missing", v |-> ""]
JNull == [t |-> "null", v |-> "None"]
JNum == [t |-> "num", v |-> "5"]
JList == [t |-> "list", v |-> "[]"]
JStr(x) == [t |-> "str", v |-> x]

GitHubKeys ==
    {"repo_url", "local_repos_base", "repo_subdir", "default_branch",
     "commit_prefix"}

\* the dataclass defaults
GitHubDefaults ==
    [repo_url |-> "", local_repos_base |-> "~/dev",
     repo_subdir |-> "docs/protokoll", default_branch |-> "main",
     commit_prefix |-> "Lagg till protokoll"]

AppDefaults ==
    [output_dir |-> "./output", last_team |-> "Teamnamn",
     github |-> GitHubDefaults]

FieldValues == {Missing, JNull, JStr("x")}

\* the value of the key "github": missing, not an object, or an object
GitHubValues ==
    {[t |-> x.t, v |-> x.v, f |-> [k \in GitHubKeys |-> Missing]] :
        x \in {Missing, JNull, JNum, JList, JStr("x")}}
    \cup {[t |-> "obj", v |-> "{}", f |-> f] : f \in [GitHubKeys -> FieldValues]}

NoData ==
    [t |-> "missing", output_dir |-> Missing, last_team |-> Missing,
     github |-> [t |-> "missing", v |-> "", f |-> [k \in GitHubKeys |-> Missing]]]

\* what json.loads can give: an object, or a value that is not an object
JsonData ==
    {[NoData EXCEPT !.t = x] : x \in {"null", "num", "str", "list"}}
    \cup {[t |-> "obj", output_dir |-> o, last_team |-> l, github |-> g] :
            o \in FieldValues \cup {JNum}, l \in FieldValues, g \in GitHubValues}

\* the states of settings.json
SettingsFiles ==
    {[state |-> st, data |-> NoData] : st \in {"absent", "unreadable", "not json"}}
    \cup {[state |-> "json", data |-> d] : d \in JsonData}

\* str(d.get(key, default))
StrGet(value, default) == IF value.t = "missing" THEN default ELSE value.v

\* load_settings: [raised, settings]
load_settings(file) ==
    IF file.state = "absent"
    THEN [raised |-> FALSE, settings |-> AppDefaults]
    ELSE IF file.state \in {"unreadable", "not json"}
    THEN [raised |-> FALSE, settings |-> AppDefaults]
    ELSE LET data == file.data
             isdict == data.t = "obj"
             \* gh = data.get("github", {}) if isinstance(data, dict) else {}
             ghIsDict == ~isdict \/ data.github.t \in {"missing", "obj"}
             gh == IF isdict THEN data.github.f
                   ELSE [k \in GitHubKeys |-> Missing]
         IN  IF ~ghIsDict
             THEN \* gh.get: AttributeError
                  [raised |-> TRUE, settings |-> AppDefaults]
             ELSE IF ~isdict
             THEN \* data.get: AttributeError
                  [raised |-> TRUE, settings |-> AppDefaults]
             ELSE [raised |-> FALSE,
                   settings |->
                     [output_dir |-> StrGet(data.output_dir, "./output"),
                      last_team |-> StrGet(data.last_team, "Teamnamn"),
                      github |->
                        [k \in GitHubKeys |-> StrGet(gh[k], GitHubDefaults[k])]]]

\* save_settings: the payload json.dumps writes
SavedData(st) ==
    [t |-> "obj", output_dir |-> JStr(st.output_dir),
     last_team |-> JStr(st.last_team),
     github |-> [t |-> "obj", v |-> "{}",
                 f |-> [k \in GitHubKeys |-> JStr(st.github[k])]]]

InitSettings ==
    /\ settings_file \in SettingsFiles
    /\ settings = AppDefaults
    /\ spc = "start"

\* main: settings = load_settings(settings_path)
LoadSettings ==
    /\ spc = "start"
    /\ settings' = load_settings(settings_file).settings
    /\ spc' = IF load_settings(settings_file).raised THEN "crashed" ELSE "loaded"
    /\ UNCHANGED settings_file

\* persist_settings: try: save_settings(...) except Exception: pass
PersistSettings ==
    /\ spc = "loaded"
    /\ \/ settings_file' = [state |-> "json", data |-> SavedData(settings)]
       \/ UNCHANGED settings_file
    /\ spc' = "saved"
    /\ UNCHANGED settings

-----------------------------------------------------------------------------
(* Claims about the settings store, checked under SpecSettings *)

WellFormed(value) == value.t = "str"

\* C8: load_settings never fails, and every field whose source is missing,
\* unreadable or not well-formed (not a string) has its default value.
C8_LoadNeverFailsAndDefaults ==
    spc # "start"
        => /\ spc # "crashed"
           /\ LET d == settings_file.data
                  usable == settings_file.state = "json" /\ d.t = "obj"
                  ghUsable == usable /\ d.github.t = "obj"
              IN  spc = "loaded"
                  => /\ (~usable \/ ~WellFormed(d.output_dir))
                            => settings.output_dir = "./output"
                     /\ (~usable \/ ~WellFormed(d.last_team))
                            => settings.last_team = "Teamnamn"
                     /\ \A k \in GitHubKeys :
                          (~ghUsable \/ ~WellFormed(d.github.f[k]))
                            => settings.github[k] = GitHubDefaults[k]

-----------------------------------------------------------------------------
(* The GUI handlers: check_existing_on_start, on_generate, on_upload_github *)

Digits == {"0", "1", "2", "6"}

Today == <<"2", "0", "2", "6", "-", "0", "1", "-", "2", "0">>

\* what the user may type into the date field
DateInputs ==
    { Today,
      <<"2", "0", "2", "6", "-", "0", "1", "-", "2", "1">>,
      <<" ">> \o Today \o <<" ">>,
      <<>>,
      <<" ">>,
      <<"2", "0", "2", "6", "-", "1", "-", "2", "0">>,
      <<"2", "0", "2", "6", "0", "1", "2", "0">>,
      <<"2", "0", "2", "6", "/", "0", "1", "/", "2", "0">>,
      <<"2", "0", "2", "6", "-", "0", "1", "-", "2", "x">>,
      Today \o <<"1">>,
      <<"x">> \o Today,
      <<"2", "0", " ", "6", "-", "0", "1", "-", "2", "0">> }

DatePattern(t) ==
    /\ \A i \in {1, 2, 3, 4, 6, 7, 9, 10} : t[i] \in Digits
    /\ t[5] = "-"
    /\ t[8] = "-"

validate_date_format_NoEnd(d) ==
    Len(Strip(d)) >= 10 /\ DatePattern(Strip(d))

\* re.match(r"^\d{4}-\d{2}-\d{2}$", (d or "").strip())
validate_date_format(d) ==
    Len(Strip(d)) = 10 /\ DatePattern(Strip(d))

team_var == <<"T", "e", "a", "m", " ", "R", "ouml", "d">>

OutputDir == [team |-> <<>>, datum |-> <<"output_dir">>]
SettingsPath == [team |-> <<>>, datum |-> <<"settings.json">>]
NoPath == [team |-> <<>>, datum |-> <<"None">>]

FsOp(o, path) == [op |-> o, path |-> path]

\* planned_docx_path: output_dir.mkdir(...); output_dir / filename
planned_docx_path(team, datum) == [team |-> safe_filename(team), datum |-> datum]
planned_docx_path_ops == <<FsOp("mkdir", OutputDir)>>

\* compute_planned_path() with the form's team and date; the team field is
\* held at one value, the date gate does not depend on it
compute_planned_path == planned_docx_path(team_var, Strip(datum_var))

\* what ask_file_exists_action returns: 'load', 'update' or None
FileChoices == {"load", "update", "None"}
NotAsked == [existed |-> FALSE, user_choice |-> "not asked", left |-> FALSE]

Continues_UnlessCancelled(existed, user_choice) ==
    ~existed \/ user_choice # "None"

\* on_generate goes on to create_word_doc_to_path: there is no such file, or
\* the answer was 'update'
Continues(existed, user_choice) ==
    ~existed \/ user_choice = "update"

InitApp ==
    /\ gen = NotAsked
    /\ datum_var = Today
    /\ disk \in SUBSET {planned_docx_path(team_var, Today)}
    /\ last_created_path = NoPath
    /\ started = FALSE
    /\ handler = "none"
    /\ dateSeen = Today
    /\ ops = <<>>
    /\ boxes = <<>>

\* the user edits the date field
EditDate ==
    /\ \E d \in DateInputs : datum_var' = d
    /\ datum_var' # datum_var
    /\ UNCHANGED <<disk, last_created_path, started, handler, dateSeen, ops,
                   boxes, gen>>

\* the user removes a protocol file from the output directory
DeleteFile ==
    /\ \E f \in disk : disk' = disk \ {f}
    /\ UNCHANGED <<datum_var, last_created_path, started, handler, dateSeen,
                   ops, boxes, gen>>

Entered(h) == handler' = h /\ dateSeen' = datum_var

\* root.after(200, check_existing_on_start)
check_existing_on_start ==
    /\ ~started
    /\ started' = TRUE
    /\ Entered("check_existing_on_start")
    /\ IF ~validate_date_format(datum_var)
       THEN /\ ops' = <<>>
            /\ boxes' = <<>>
            /\ UNCHANGED datum_var
       ELSE LET path == compute_planned_path
                look == planned_docx_path_ops \o <<FsOp("exists", path)>>
            IN  IF path \notin disk
                THEN ops' = look /\ boxes' = <<>> /\ UNCHANGED datum_var
                ELSE \/ \* askyesno: no
                        /\ ops' = look
                        /\ boxes' = <<"Befintligt protokoll hittat">>
                        /\ UNCHANGED datum_var
                     \/ \* askyesno: yes; load_existing_into_form
                        /\ ops' = Append(look, FsOp("read", path))
                        /\ boxes' = <<"Befintligt protokoll hittat",
                                      "Protokoll inladdat">>
                        /\ \E d \in DateInputs : datum_var' = d
                     \/ \* ... and load_existing_docx raises
                        /\ ops' = Append(look, FsOp("read", path))
                        /\ boxes' = <<"Befintligt protokoll hittat",
                                      "Kunde inte ladda protokollet">>
                        /\ UNCHANGED datum_var
    /\ UNCHANGED <<disk, last_created_path, gen>>

on_generate ==
    /\ Entered("on_generate")
    /\ IF ~validate_date_format(Strip(datum_var))
       THEN /\ ops' = <<>>
            /\ boxes' = <<"Fel: Datum">>
            /\ gen' = NotAsked
            /\ UNCHANGED <<datum_var, disk, last_created_path>>
       ELSE LET outpath == planned_docx_path(team_var, Strip(datum_var))
                existed == outpath \in disk
                look == planned_docx_path_ops \o <<FsOp("exists", outpath)>>
                asked == IF existed THEN <<"Filen finns redan">> ELSE <<>>
            IN  \E c \in (IF existed THEN FileChoices ELSE {"not asked"}) :
                /\ IF ~Continues(existed, c) /\ c = "load"
                   THEN \* load_existing_into_form(outpath); return
                        /\ ops' = Append(look, FsOp("read", outpath))
                        /\ \/ /\ boxes' = asked \o <<"Protokoll inladdat">>
                              /\ \E d \in DateInputs : datum_var' = d
                           \/ /\ boxes' = asked \o <<"Kunde inte ladda protokollet">>
                              /\ UNCHANGED datum_var
                        /\ UNCHANGED <<disk, last_created_path>>
                   ELSE IF ~Continues(existed, c)
                   THEN \* user_choice is None: return
                        /\ ops' = look
                        /\ boxes' = asked
                        /\ UNCHANGED <<datum_var, disk, last_created_path>>
                   ELSE \/ \* create_word_doc_to_path, persist_settings,
                           \* open_file_with_default_app
                           /\ ops' = look \o <<FsOp("mkdir", OutputDir),
                                               FsOp("write", outpath),
                                               FsOp("write", SettingsPath),
                                               FsOp("exists", outpath)>>
                           /\ boxes' = asked \o <<"Klart">>
                           /\ disk' = disk \cup {outpath}
                           /\ last_created_path' = outpath
                           /\ UNCHANGED datum_var
                        \/ \* create_word_doc_to_path raises before doc.save
                           /\ ops' = look \o <<FsOp("mkdir", OutputDir)>>
                           /\ boxes' = asked \o <<"Fel: Kunde inte skapa dokumentet">>
                           /\ UNCHANGED <<datum_var, disk, last_created_path>>
                        \/ \* doc.save(outpath) raises: what it wrote stays
                           /\ ops' = look \o <<FsOp("mkdir", OutputDir),
                                               FsOp("write", outpath)>>
                           /\ boxes' = asked \o <<"Fel: Kunde inte skapa dokumentet">>
                           /\ disk' = disk \cup {outpath}
                           /\ UNCHANGED <<datum_var, last_created_path>>
                /\ gen' = [existed |-> existed, user_choice |-> c,
                           left |-> outpath \in disk']
    /\ UNCHANGED started

on_upload_github ==
    /\ Entered("on_upload_github")
    /\ LET first == IF last_created_path # NoPath
                    THEN <<FsOp("exists", last_created_path)>> ELSE <<>>
           need == last_created_path = NoPath \/ last_created_path \notin disk
           derive == need /\ validate_date_format(datum_var)
           candidate == compute_planned_path
           mid == IF derive
                  THEN planned_docx_path_ops \o <<FsOp("exists", candidate)>>
                  ELSE <<>>
           path == IF derive /\ candidate \in disk
                   THEN candidate ELSE last_created_path
           last == IF path # NoPath THEN <<FsOp("exists", path)>> ELSE <<>>
       IN  /\ last_created_path' = path
           /\ IF path = NoPath \/ path \notin disk
              THEN /\ ops' = first \o mid \o last
                   /\ boxes' = <<"Ingen fil att ladda upp">>
              ELSE \* upload_docx_flow(root, last_created_path, settings.github)
                   /\ ops' = first \o mid \o last \o <<FsOp("read", path)>>
                   /\ \/ boxes' = <<"Uppladdat">>
                      \/ boxes' = <<"GitHub misslyckades">>
    /\ UNCHANGED <<datum_var, disk, started, gen>>

-----------------------------------------------------------------------------
(* Claims about the date gate, checked under SpecApp *)

\* YYYY-MM-DD: four digits, hyphen, two digits, hyphen, two digits
ClaimDateShape(t) ==
    [i \in 1..Len(t) |-> IF t[i] \in Digits THEN "d" ELSE t[i]]
        = <<"d", "d", "d", "d", "-", "d", "d", "-", "d", "d">>

DateRejected == handler # "none" /\ ~ClaimDateShape(Trimmed(dateSeen))

Wrote(path) == \E i \in 1..Len(ops) : ops[i] = FsOp("write", path)
Generated == handler = "on_generate" /\ ClaimDateShape(Trimmed(dateSeen))
GenPath == [team |-> Reference(Trimmed(team_var)), datum |-> Trimmed(dateSeen)]

\* C15: on_generate asks exactly when the planned file exists; it writes an
\* existing file only after the answer 'update'; after 'load' or cancel
\* nothing is written (neither the document nor the settings) and the file is
\* still there; a file that does not exist is generated without a prompt.
C15_OverwriteOnlyAfterUpdate ==
    Generated
        => /\ gen.existed <=> (boxes # <<>> /\ boxes[1] = "Filen finns redan")
           /\ gen.existed <=> gen.user_choice \in FileChoices
           /\ Wrote(GenPath) => (~gen.existed \/ gen.user_choice = "update")
           /\ (gen.existed /\ gen.user_choice \in {"load", "None"})
                => /\ \A i \in 1..Len(ops) : ops[i].op # "write"
                   /\ gen.left
           /\ ~gen.existed
                => /\ FsOp("mkdir", OutputDir) \in Range(SubSeq(ops, 3, Len(ops)))
                   /\ boxes \in {<<"Klart">>, <<"Fel: Kunde inte skapa dokumentet">>}
           /\ Wrote(SettingsPath) => (Wrote(GenPath) /\ boxes[Len(boxes)] = "Klart")

C15_Witness ==
    /\ Generated
    /\ gen = [existed |-> TRUE, user_choice |-> "load", left |-> TRUE]
    /\ boxes = <<"Filen finns redan", "Protokoll inladdat">>
    /\ ~Wrote(GenPath)

-----------------------------------------------------------------------------
(* run_git: the error it raises and where the error goes *)

\* " ".join(args)
RECURSIVE JoinArgs(_)
JoinArgs(args) ==
    IF args = <<>> THEN <<>>
    ELSE IF Len(args) = 1 THEN args
    ELSE <<Head(args), " ">> \o JoinArgs(Tail(args))

PushArgs == <<"push">>
RevParseArgs == <<"rev-parse", "--abbrev-ref", "HEAD">>

\* the git calls of the workflow that the payload is followed through
GitArgs ==
    { <<"fetch", "--all", "--prune">>,
      <<"symbolic-ref", "refs/remotes/origin/HEAD">>,
      <<"status", "--porcelain">>,
      PushArgs,
      RevParseArgs,
      <<"push", "-u", "origin", "main">> }

ReturnCodes == {0, 1, 128}
ExitText(rc) == IF rc = 0 THEN "0" ELSE IF rc = 1 THEN "1" ELSE "128"

\* what git may have written to stdout and to stderr
Outputs ==
    { <<>>, <<"main">>, <<" ", "main", "\n">>,
      <<"fatal:", " ", "no upstream", "\n">>,
      <<"error:", " ", "x", "\n", "hint:", " ", "y", "\n">> }

\* f"Git-kommando misslyckades: git {' '.join(args)}\nSTDOUT:\n...\nSTDERR:\n..."
ErrorMessage(args, proc) ==
    <<"Git-kommando misslyckades: git ">> \o JoinArgs(args)
        \o <<"\n", "STDOUT:", "\n">> \o proc.stdout
        \o <<"\n", "STDERR:", "\n">> \o proc.stderr

NoProc == [returncode |-> 0, stdout |-> <<>>, stderr |-> <<>>]

InitRunGit ==
    /\ rg_args = <<>>
    /\ rg_proc = NoProc
    /\ rg_exc = <<>>
    /\ rg_ret = <<>>
    /\ rg_shown = <<>>
    /\ rg_pc = "idle"

\* run_git(args): subprocess.run(...), raise on a nonzero returncode,
\* return proc.stdout.strip() otherwise
run_git(args) ==
    /\ rg_args' = args
    /\ \E rc \in ReturnCodes, out \in Outputs, e \in Outputs :
         /\ rg_proc' = [returncode |-> rc, stdout |-> out, stderr |-> e]
         /\ IF rc # 0
            THEN /\ rg_exc' = ErrorMessage(args, rg_proc')
                 /\ rg_ret' = <<>>
                 /\ rg_pc' = "raised"
            ELSE /\ rg_exc' = <<>>
                 /\ rg_ret' = Strip(out)
                 /\ rg_pc' = "returned"
    /\ rg_shown' = <<>>

\* a git call of the workflow outside the push fallback
CallGit ==
    /\ rg_pc \in {"idle", "returned", "shown"}
    /\ \E args \in GitArgs : run_git(args)

\* commit_and_push: except RuntimeError: the failure of the plain push is
\* dropped and rev-parse is called
CatchPushFailure ==
    /\ rg_pc = "raised"
    /\ rg_args = PushArgs
    /\ rg_pc' = "fallback"
    /\ rg_exc' = <<>>
    /\ UNCHANGED <<rg_args, rg_proc, rg_ret, rg_shown>>

CallRevParse ==
    /\ rg_pc = "fallback"
    /\ run_git(RevParseArgs)

\* on_upload_github: except Exception as e: showerror("GitHub misslyckades", str(e))
ShowError ==
    /\ rg_pc = "raised"
    /\ rg_args # PushArgs
    /\ rg_shown' = rg_exc
    /\ rg_pc' = "shown"
    /\ UNCHANGED <<rg_args, rg_proc, rg_exc, rg_ret>>

-----------------------------------------------------------------------------
(* Claims about run_git's errors, checked under SpecRunGit *)

\* part occurs in text as a contiguous piece
Contains(text, part) ==
    \E i \in 0..(Len(text) - Len(part)) :
        \A j \in 1..Len(part) : text[i + j] = part[j]

\* the argument tokens in order, whatever separates them
RECURSIVE HasInOrder(_, _)
HasInOrder(text, toks) ==
    \/ toks = <<>>
    \/ /\ text # <<>>
       /\ IF Head(text) = Head(toks)
          THEN HasInOrder(Tail(text), Tail(toks))
          ELSE HasInOrder(Tail(text), toks)

\* C14: the error of a failing git call that reaches the caller boundary
\* holds the command with its arguments, its exit status, its standard
\* output verbatim and its standard error verbatim.
C14_PayloadHasAllFour ==
    rg_pc = "shown"
        => /\ HasInOrder(rg_shown, rg_args)
           /\ Contains(rg_shown, rg_proc.stdout)
           /\ Contains(rg_shown, rg_proc.stderr)
           /\ Contains(rg_shown, <<ExitText(rg_proc.returncode)>>)

-----------------------------------------------------------------------------
(* Claims about the decoder's tolerance, checked under SpecCodec *)

FieldNames ==
    {"team", "datum", "deltagare", "vad_vi_jobbat_med", "hinder", "status",
     "nasta_steg"}
SectionNames == {"vad_vi_jobbat_med", "hinder", "nasta_steg"}
MetadataLabels == {"Team:", "Datum:", "Deltagare:", "Status:"}
Headings == {<<"Vad vi jobbade med:">>, <<"Hinder vi stotte pa:">>, <<"Nasta steg:">>}

IsMetadata(para) == Trimmed(para) # <<>> /\ Trimmed(para)[1] \in MetadataLabels
IsOther(para) ==
    /\ Trimmed(para) # <<>>
    /\ ~IsMetadata(para)
    /\ Trimmed(para) \notin Headings

IsPrefix(a, b) == Len(a) <= Len(b) /\ SubSeq(b, 1, Len(a)) = a

\* the loop of load_existing_docx has just handled paragraph docx[pos]
Handled == cpc = "loading" /\ pos' = pos + 1

\* C16: load_existing_docx returns a record of the seven fields for every
\* document; a paragraph that is not empty, not a metadata or Status line and
\* not a heading changes nothing when the cursor is none, and otherwise
\* changes at most the cursor's section, by appending to it; every
\* Team:/Datum:/Deltagare:/Status: line sets the cursor to none.
C16_TolerantDecode ==
    [][ /\ cpc' = "loaded" => (cpc = "loading" /\ DOMAIN result' = FieldNames)
        /\ (cpc = "loading" /\ pos <= Len(docx)) => Handled
        /\ (Handled /\ IsMetadata(docx[pos])) => current_section' = NoSection
        /\ (Handled /\ IsOther(docx[pos]))
             => /\ current_section' = current_section
                /\ current_section = NoSection => result' = result
                /\ current_section # NoSection
                     => /\ current_section \in SectionNames
                        /\ \A f \in FieldNames \ {current_section} :
                             result'[f] = result[f]
                        /\ IsPrefix(result[current_section],
                                    result'[current_section])
      ]_vars

C16_Witness ==
    /\ cpc = "loaded"
    /\ docx = << <<"Vad vi jobbade med:">>, <<"Team:", " ", "a">>, <<"a">> >>
    /\ result = [EmptyResult EXCEPT !.team = <<"a">>]
    /\ current_section = NoSection

-----------------------------------------------------------------------------
(* Specifications *)

\* the parts a specification does not exercise stay as constructed
GitParked == InitGit /\ repo_url = <<>> /\ repoDir = "absent"
CodecParked ==
    /\ cpc = "form" /\ rec = BaseRec /\ docx = <<>> /\ encoded = FALSE
    /\ result = EmptyResult /\ current_section = NoSection /\ pos = 0
NameParked == name_in = <<>> /\ name_out = <<>> /\ name_by = "none"
AppParked ==
    /\ InitApp /\ disk = {}
RgParked == InitRunGit
SetParked ==
    /\ settings_file = [state |-> "absent", data |-> NoData]
    /\ settings = AppDefaults /\ spc = "start"

\* the publish workflow
Init == InitGit /\ CodecParked /\ NameParked /\ SetParked /\ AppParked /\ RgParked
Next ==
    \/ StartUpload /\ UNCHANGED <<codecVars, nameVars, setVars, appVars, rgVars>>
    \/ ensure_repo_cloned /\ UNCHANGED <<codecVars, nameVars, setVars, appVars, rgVars>>
    \/ PromptBranch /\ UNCHANGED <<codecVars, nameVars, setVars, appVars, rgVars>>
    \/ Fetch /\ UNCHANGED <<codecVars, nameVars, setVars, appVars, rgVars>>
    \/ ListLocal /\ UNCHANGED <<codecVars, nameVars, setVars, appVars, rgVars>>
    \/ CheckoutLocal /\ UNCHANGED <<codecVars, nameVars, setVars, appVars, rgVars>>
    \/ ListRemote /\ UNCHANGED <<codecVars, nameVars, setVars, appVars, rgVars>>
    \/ CheckoutTrack /\ UNCHANGED <<codecVars, nameVars, setVars, appVars, rgVars>>
    \/ SymbolicRef /\ UNCHANGED <<codecVars, nameVars, setVars, appVars, rgVars>>
    \/ CheckoutNew /\ UNCHANGED <<codecVars, nameVars, setVars, appVars, rgVars>>
    \/ copy_docx_into_repo /\ UNCHANGED <<codecVars, nameVars, setVars, appVars, rgVars>>
    \/ GitAdd /\ UNCHANGED <<codecVars, nameVars, setVars, appVars, rgVars>>
    \/ GitStatus /\ UNCHANGED <<codecVars, nameVars, setVars, appVars, rgVars>>
    \/ GitCommit /\ UNCHANGED <<codecVars, nameVars, setVars, appVars, rgVars>>
    \/ GitPush /\ UNCHANGED <<codecVars, nameVars, setVars, appVars, rgVars>>
    \/ RevParse /\ UNCHANGED <<codecVars, nameVars, setVars, appVars, rgVars>>
    \/ GitPushUpstream /\ UNCHANGED <<codecVars, nameVars, setVars, appVars, rgVars>>
Spec == Init /\ [][Next]_vars

\* the document codec
InitC == InitCodec /\ GitParked /\ NameParked /\ SetParked /\ AppParked /\ RgParked
NextC ==
    \/ Generate /\ UNCHANGED <<gitVars, nameVars, setVars, appVars, rgVars>>
    \/ LoadStart /\ UNCHANGED <<gitVars, nameVars, setVars, appVars, rgVars>>
    \/ LoadStep /\ UNCHANGED <<gitVars, nameVars, setVars, appVars, rgVars>>
    \/ LoadReturn /\ UNCHANGED <<gitVars, nameVars, setVars, appVars, rgVars>>
SpecCodec == InitC /\ [][NextC]_vars

\* the sanitizer
InitN == InitName /\ GitParked /\ CodecParked /\ SetParked /\ AppParked /\ RgParked
NextN ==
    \/ CallSafeFilename /\ UNCHANGED <<gitVars, codecVars, setVars, appVars, rgVars>>
    \/ CallSafeFilenameProtokoll /\ UNCHANGED <<gitVars, codecVars, setVars, appVars, rgVars>>
SpecName == InitN /\ [][NextN]_vars

\* the settings store
InitS == InitSettings /\ GitParked /\ CodecParked /\ NameParked /\ AppParked /\ RgParked
NextS ==
    \/ LoadSettings /\ UNCHANGED <<gitVars, codecVars, nameVars, appVars, rgVars>>
    \/ PersistSettings /\ UNCHANGED <<gitVars, codecVars, nameVars, appVars, rgVars>>
SpecSettings == InitS /\ [][NextS]_vars

\* the GUI handlers
InitA == InitApp /\ GitParked /\ CodecParked /\ NameParked /\ SetParked /\ RgParked
NextA ==
    \/ EditDate /\ UNCHANGED <<gitVars, codecVars, nameVars, setVars, rgVars>>
    \/ DeleteFile /\ UNCHANGED <<gitVars, codecVars, nameVars, setVars, rgVars>>
    \/ check_existing_on_start /\ UNCHANGED <<gitVars, codecVars, nameVars, setVars, rgVars>>
    \/ on_generate /\ UNCHANGED <<gitVars, codecVars, nameVars, setVars, rgVars>>
    \/ on_upload_github /\ UNCHANGED <<gitVars, codecVars, nameVars, setVars, rgVars>>
SpecApp == InitA /\ [][NextA]_vars

\* run_git and the way its errors take
InitR == InitRunGit /\ GitParked /\ CodecParked /\ NameParked /\ SetParked /\ AppParked
NextR ==
    \/ CallGit /\ UNCHANGED <<gitVars, codecVars, nameVars, setVars, appVars>>
    \/ CatchPushFailure /\ UNCHANGED <<gitVars, codecVars, nameVars, setVars, appVars>>
    \/ CallRevParse /\ UNCHANGED <<gitVars, codecVars, nameVars, setVars, appVars>>
    \/ ShowError /\ UNCHANGED <<gitVars, codecVars, nameVars, setVars, appVars>>
SpecRunGit == InitR /\ [][NextR]_vars

=============================================================================
